---------------------------- MODULE Spec2Model ----------------------------
(***************************************************************************)
(* State-machine model of the vulcan reverse proxy: the path matcher, the  *)
(* round-robin cursor table with its expiry heap, the weight-adjustment    *)
(* FSM, the failover forwarder of proxy.go and the HttpLocation round trip.*)
(* Each subsystem has its own next-state relation and specification; they  *)
(* share no state, so a subsystem's actions leave the others' variables    *)
(* unchanged.                                                              *)
(***************************************************************************)
EXTENDS Integers, Sequences, FiniteSets, TLC

VARIABLES
    \* ---- path matcher (pathmatch) ----
    locations,      \* registry: registered pattern -> location
    matchOut,       \* what the last AddLocation / RemoveLocation / Route returned
    \* ---- cursor table (roundrobin cursorMap) ----
    cursors,        \* cm.cursors: hash -> sequence of cursor references
    cursorObjs,     \* the cursor objects: reference -> [index, hash, item, endpointIds]
    pqItems,        \* the pqItem objects: reference -> [c, priority, index]
    expiryTimes,    \* cm.expiryTimes: the heap's slice of pqItem references
    allocated,      \* number of cursors allocated so far (the next reference)
    served,         \* history: endpoint list -> cursor last returned for it, while that cursor lives
    cmOut,          \* what the last upsertCursor / deleteExpiredCursors did
    \* ---- weight-adjustment FSM (roundrobin FSMHandler) ----
    originalWeights,  \* fsm.originalWeights: one weight per endpoint of fsm.endpoints
    effectiveWeights, \* each endpoint's GetEffectiveWeight()
    failRates,        \* each endpoint's failRate(), in percent
    meterReady,       \* each endpoint's meter.IsReady()
    lastWeights,      \* fsm.lastWeights
    timerLeft,        \* fsm.timer minus the current time, in ticks; below 0 once passed
    steady,           \* TRUE from the point on where all fail rates are equal and stay so
    fsmOut,           \* what the last AdjustWeights call returned
    \* ---- the forwarders (ReverseProxy.ServeHTTP, HttpLocation.RoundTrip) ----
    entry,          \* the entry point serving the current request
    pc,             \* where the entry point stands
    method,         \* req.Method
    body,           \* the bytes of the request body
    answers,        \* what each upstream does with this request
    readerPos,      \* offset of the request body's reader
    failover,       \* instructions.Failover
    instrUpstreams, \* instructions.Upstreams
    throttle,       \* how throttler.throttle came back
    candidates,     \* the upstreams getUpstreams returned / the balancer's endpoints
    nextUpstream,   \* position of proxyRequest's loop in the upstreams
    attempts,       \* the attempts made for the request, in order
    written,        \* the WriteHeader calls on the downstream writer
    statsFor,       \* the calls of updateStats: the upstream, and whether the call failed
    ret,            \* what RoundTrip returned
    cancelledAt,    \* number of attempts made when the caller cancelled, -1 before that
    \* ---- single calls ----
    rewriteOut,     \* the last rewriteRequest call: its inputs and what it left behind
    settingsOut,    \* the last validateProxySettings call: its input and its result
    nextOut,        \* the last cursor.next call: its inputs and its result
    \* ---- one request failing over on a shared round-robin cursor ----
    rr              \* the endpoints' active flags, the cursor's index, the endpoints
                    \* picked for the request and the picks made for other requests

varsMatch == <<locations, matchOut>>

varsCursor == <<cursors, cursorObjs, pqItems, expiryTimes, allocated, served, cmOut>>

varsFsm == <<originalWeights, effectiveWeights, failRates, meterReady, lastWeights,
             timerLeft, steady, fsmOut>>

varsForward == <<entry, pc, method, body, answers, readerPos, failover, instrUpstreams,
                 throttle, candidates, nextUpstream, attempts, written, statsFor, ret,
                 cancelledAt>>

varsCalls == <<rewriteOut, settingsOut, nextOut, rr>>

vars == <<locations, matchOut,
          cursors, cursorObjs, pqItems, expiryTimes, allocated, served, cmOut,
          originalWeights, effectiveWeights, failRates, meterReady, lastWeights,
          timerLeft, steady, fsmOut,
          entry, pc, method, body, answers, readerPos, failover, instrUpstreams, throttle,
          candidates, nextUpstream, attempts, written, statsFor, ret, cancelledAt,
          rewriteOut, settingsOut, nextOut, rr>>

(***************************************************************************)
(* Generic helpers                                                         *)
(***************************************************************************)
Range(s) == {s[i] : i \in 1..Len(s)}

\* All sequences over S of length at most n
SeqsUpTo(S, n) == UNION {[1..k -> S] : k \in 0..n}

Max2(a, b) == IF a >= b THEN a ELSE b

(***************************************************************************)
(* PATH MATCHER                                                            *)
(* The matcher's implementation is not among the sources; its tests are    *)
(* (src/unnamed/part_000).  Paths and patterns are character sequences.    *)
(***************************************************************************)
MaxPathLen == 6

PathChars == {"/", "a"}

Locs == {"L1", "L2"}

NoLoc == "nil"

\* The patterns offered to AddLocation; the last one is not a valid expression
\* (TestAddBad registers "--(").
PatRoot == <<"/">>
PatA == <<"/", "a">>
PatASlash == <<"/", "a", "/">>
PatAA == <<"/", "a", "/", "a">>
PatBad == <<"-", "-", "(">>

Patterns == {PatRoot, PatA, PatASlash, PatAA, PatBad}

\* Request URL paths: empty, or starting with a slash
Paths == {p \in SeqsUpTo(PathChars, MaxPathLen) : Len(p) = 0 \/ p[1] = "/"}

\* A pattern is an expression; an unbalanced parenthesis does not compile
ValidPattern(p) ==
    Cardinality({i \in 1..Len(p) : p[i] = "("}) = Cardinality({i \in 1..Len(p) : p[i] = ")"})

\* An empty URL path is routed as "/" (TestEmptyPath)
NormalizePath(path) == IF Len(path) = 0 THEN <<"/">> ELSE path

\* Mutant of PatternMatches: a pattern that is a prefix of the path matches
PatternMatchesPrefix(p, path) ==
    Len(p) <= Len(path) /\ SubSeq(path, 1, Len(p)) = p

\* The pattern must cover the whole path, up to one optional trailing slash
\* (TestTrailingSlashes, TestPatternTrailingSlashes, TestMatchNothing)
PatternMatches(p, path) == path = p \/ path = Append(p, "/")

\* Mutant of SortByLength: the patterns ordered shortest first
RECURSIVE SortByLengthAscending(_)
SortByLengthAscending(ps) ==
    IF ps = {} THEN <<>>
    ELSE LET shortest == CHOOSE p \in ps : \A q \in ps : Len(p) <= Len(q)
         IN  <<shortest>> \o SortByLengthAscending(ps \ {shortest})

\* The registered patterns, longest first
RECURSIVE SortByLength(_)
SortByLength(ps) ==
    IF ps = {} THEN <<>>
    ELSE LET longest == CHOOSE p \in ps : \A q \in ps : Len(q) <= Len(p)
         IN  <<longest>> \o SortByLength(ps \ {longest})

\* The first pattern of the ordered list that matches decides
RECURSIVE FirstMatch(_, _)
FirstMatch(sorted, path) ==
    IF sorted = <<>> THEN <<>>
    ELSE IF PatternMatches(Head(sorted), path) THEN Head(sorted)
    ELSE FirstMatch(Tail(sorted), path)

RouteIn(reg, path) ==
    LET m == FirstMatch(SortByLength(DOMAIN reg), NormalizePath(path))
    IN  IF m = <<>> THEN NoLoc ELSE reg[m]

InitMatch ==
    /\ locations = <<>>
    /\ matchOut = [op |-> "none"]

\* Mutant of AddLocation: a pattern registered twice is overwritten silently
AddLocationOverwrite(p, l) ==
    /\ IF ~ValidPattern(p)
       THEN /\ locations' = locations
            /\ matchOut' = [op |-> "add", pattern |-> p, loc |-> l, err |-> TRUE]
       ELSE /\ locations' = [q \in DOMAIN locations \cup {p} |->
                                IF q = p THEN l ELSE locations[q]]
            /\ matchOut' = [op |-> "add", pattern |-> p, loc |-> l, err |-> FALSE]

AddLocation(p, l) ==
    /\ IF p \in DOMAIN locations \/ ~ValidPattern(p)
       THEN /\ locations' = locations
            /\ matchOut' = [op |-> "add", pattern |-> p, loc |-> l, err |-> TRUE]
       ELSE /\ locations' = [q \in DOMAIN locations \cup {p} |->
                                IF q = p THEN l ELSE locations[q]]
            /\ matchOut' = [op |-> "add", pattern |-> p, loc |-> l, err |-> FALSE]

\* Mutant of RemoveLocation: removing one pattern empties the registry
RemoveLocationAll(p) ==
    /\ IF p \notin DOMAIN locations
       THEN /\ locations' = locations
            /\ matchOut' = [op |-> "remove", pattern |-> p, err |-> TRUE]
       ELSE /\ locations' = <<>>
            /\ matchOut' = [op |-> "remove", pattern |-> p, err |-> FALSE]

RemoveLocation(p) ==
    /\ IF p \notin DOMAIN locations
       THEN /\ locations' = locations
            /\ matchOut' = [op |-> "remove", pattern |-> p, err |-> TRUE]
       ELSE /\ locations' = [q \in DOMAIN locations \ {p} |-> locations[q]]
            /\ matchOut' = [op |-> "remove", pattern |-> p, err |-> FALSE]

Route(path) ==
    /\ matchOut' = [op |-> "route", path |-> path, loc |-> RouteIn(locations, path),
                    err |-> FALSE]
    /\ UNCHANGED locations

DoAddLocation == (\E p \in Patterns, l \in Locs : AddLocation(p, l)) /\ UNCHANGED <<varsCursor, varsFsm, varsForward, varsCalls>>

DoRemoveLocation == (\E p \in Patterns : RemoveLocation(p)) /\ UNCHANGED <<varsCursor, varsFsm, varsForward, varsCalls>>

DoRoute == (\E path \in Paths : Route(path)) /\ UNCHANGED <<varsCursor, varsFsm, varsForward, varsCalls>>

NextMatch == DoAddLocation \/ DoRemoveLocation \/ DoRoute

(***************************************************************************)
(* Claims about the path matcher                                           *)
(***************************************************************************)
IsPrefix(p, path) == Len(p) <= Len(path) /\ SubSeq(path, 1, Len(p)) = p

LongestOf(ps) == CHOOSE p \in ps : \A q \in ps : Len(q) <= Len(p)

C14_Paths == {<<>>} \cup UNION {{q, Append(q, "/")} : q \in Patterns}

C14_AddLocationErrors ==
    [][matchOut'.op = "add" =>
          /\ matchOut'.err <=> (\/ matchOut'.pattern \in DOMAIN locations
                                \/ ~ValidPattern(matchOut'.pattern))
          /\ matchOut'.err =>
                /\ locations' = locations
                /\ \A path \in C14_Paths :
                       RouteIn(locations', path) = RouteIn(locations, path)
          /\ ~matchOut'.err =>
                RouteIn(locations', matchOut'.pattern) = matchOut'.loc]_vars

\* C14 witness: a registered pattern was offered again with another location,
\* the call failed and the pattern still routes to its first location.
C14_Witness ==
    /\ matchOut.op = "add"
    /\ matchOut.err
    /\ matchOut.pattern \in DOMAIN locations
    /\ locations[matchOut.pattern] # matchOut.loc
    /\ RouteIn(locations, matchOut.pattern) = locations[matchOut.pattern]

\* The registered patterns that cover a path: the path is the pattern, or the
\* pattern followed by one slash
Covering(reg, path) ==
    {q \in DOMAIN reg : NormalizePath(path) \in {q, Append(q, "/")}}

\* C15: RemoveLocation fails exactly when the pattern is not registered; after
\* a successful RemoveLocation(p) a path that only p matched routes to nil and
\* every other registered pattern still routes to its own location.
C15_RemoveLocationFrame ==
    [][matchOut'.op = "remove" =>
          /\ matchOut'.err <=> matchOut'.pattern \notin DOMAIN locations
          /\ matchOut'.err => locations' = locations
          /\ ~matchOut'.err =>
                /\ \A path \in Paths :
                       Covering(locations, path) = {matchOut'.pattern}
                           => RouteIn(locations', path) = NoLoc
                /\ \A q \in DOMAIN locations \ {matchOut'.pattern} :
                       RouteIn(locations', q) = locations[q]]_vars

\* C15 witness: a pattern was removed while another one stayed registered, the
\* removed pattern's path routes to nil and the other to its location.
C15_Witness ==
    /\ matchOut.op = "remove"
    /\ ~matchOut.err
    /\ matchOut.pattern = PatAA
    /\ DOMAIN locations = {PatA}
    /\ RouteIn(locations, PatAA) = NoLoc
    /\ RouteIn(locations, PatA) = locations[PatA]

\* C16: Route returns nil and no error whenever no registered pattern matches
\* the path: for every path on an empty matcher, and when a registered pattern
\* is only a proper prefix of the path.
C16_RouteNothing ==
    matchOut.op = "route" =>
        /\ ~matchOut.err
        /\ Covering(locations, matchOut.path) = {} => matchOut.loc = NoLoc

\* C16 witness: only "/" is registered and the path "/a/a", of which "/" is a
\* proper prefix, was routed to nil.
C16_Witness ==
    /\ matchOut.op = "route"
    /\ DOMAIN locations = {PatRoot}
    /\ matchOut.path = PatAA
    /\ matchOut.loc = NoLoc
    /\ ~matchOut.err

(***************************************************************************)
(* CURSOR TABLE (src/unnamed/part_002, package roundrobin, lines 247-444)  *)
(* Endpoint ids are byte strings; a 32-bit hash is kept as its two 16-bit  *)
(* halves <<hi, lo>>.                                                      *)
(***************************************************************************)
MaxAlloc == 3
MaxTime == 2

\* Endpoint ids "a", "b" and "ab" as bytes
IdA == <<97>>
IdB == <<98>>
IdAB == <<97, 98>>

\* The endpoint lists offered to the table, each a sequence of endpoint ids
EndpointLists == {<<IdA, IdB>>, <<IdAB>>, <<IdA>>, <<IdB, IdA>>}

\* hash/fnv: 32-bit FNV-1 offset basis 0x811C9DC5 and prime 0x01000193, in halves
FnvOffsetHi == 33052
FnvOffsetLo == 40389
FnvPrimeHi == 256
FnvPrimeLo == 403
Word16 == 65536

RECURSIVE Xor(_, _)
Xor(a, b) ==
    IF a = 0 THEN b
    ELSE IF b = 0 THEN a
    ELSE 2 * Xor(a \div 2, b \div 2) + (((a % 2) + (b % 2)) % 2)

\* hash *= prime32 (mod 2^32); hash ^= byte
FnvStep(h, byte) ==
    LET t  == h[2] * FnvPrimeLo
        lo == t % Word16
        hi == ((h[1] * FnvPrimeLo) + (h[2] * FnvPrimeHi) + (t \div Word16)) % Word16
    IN  <<hi, ((lo \div 256) * 256) + Xor(lo % 256, byte)>>

RECURSIVE FnvWrite(_, _)
FnvWrite(h, bytes) ==
    IF bytes = <<>> THEN h ELSE FnvWrite(FnvStep(h, Head(bytes)), Tail(bytes))

\* computeHash: every endpoint's id is written to one FNV-1 hash, in order
RECURSIVE HashFrom(_, _)
HashFrom(h, endpoints) ==
    IF endpoints = <<>> THEN h
    ELSE HashFrom(FnvWrite(h, Head(endpoints)), Tail(endpoints))

\* The hash of every list offered, computed once
HashTable == [l \in EndpointLists |-> HashFrom(<<FnvOffsetHi, FnvOffsetLo>>, l)]

computeHash(endpoints) == HashTable[endpoints]

sameEndpoints(c, endpoints) ==
    /\ Len(c.endpointIds) = Len(endpoints)
    /\ \A i \in 1..Len(endpoints) : c.endpointIds[i] = endpoints[i]

NilRef == 0

\* ---- the expiry heap: container/heap over the priorityQueue ----
\* A heap value is [q |-> slice of item references, it |-> the item objects].
\* Positions are 0-based as in the code.
HLess(h, i, j) == h.it[h.q[i + 1]].priority < h.it[h.q[j + 1]].priority

HSwap(h, i, j) ==
    LET a == h.q[i + 1]
        b == h.q[j + 1]
    IN  [q  |-> [h.q EXCEPT ![i + 1] = b, ![j + 1] = a],
         it |-> [h.it EXCEPT ![b].index = i, ![a].index = j]]

RECURSIVE HUp(_, _)
HUp(h, j) ==
    LET i == (j - 1) \div 2
    IN  IF j <= 0 \/ i = j \/ ~HLess(h, j, i) THEN h
        ELSE HUp(HSwap(h, i, j), i)

\* down returns the heap and the position the element ended at
RECURSIVE HDown(_, _, _)
HDown(h, i, n) ==
    LET j1 == 2 * i + 1
    IN  IF j1 >= n THEN [h |-> h, i |-> i]
        ELSE LET j == IF j1 + 1 < n /\ HLess(h, j1 + 1, j1) THEN j1 + 1 ELSE j1
             IN  IF ~HLess(h, j, i) THEN [h |-> h, i |-> i]
                 ELSE HDown(HSwap(h, i, j), j, n)

\* heap.Push: append the item at position n, then sift it up
HPush(h, ref) ==
    LET n == Len(h.q)
    IN  HUp([q |-> Append(h.q, ref), it |-> [h.it EXCEPT ![ref].index = n]], n)

\* heap.Pop: swap the root with the last item, sift down, cut the last item off
HPop(h) ==
    LET n == Len(h.q) - 1
        d == HDown(HSwap(h, 0, n), 0, n).h
    IN  [h |-> [q |-> SubSeq(d.q, 1, n), it |-> [d.it EXCEPT ![d.q[n + 1]].index = -1]],
         ref |-> d.q[n + 1]]

\* heap.Fix
HFix(h, i) ==
    LET d == HDown(h, i, Len(h.q))
    IN  IF d.i > i THEN d.h ELSE HUp(h, i)

\* priorityQueue.Update: set the priority, restore the heap order
HUpdate(h, ref, priority) ==
    HFix([h EXCEPT !.it[ref].priority = priority], h.it[ref].index)

HPeek(h) == h.q[1]

\* ---- cursorMap ----
getCursor(cur, objs, endpoints) ==
    LET cursorHash == computeHash(endpoints)
    IN  IF cursorHash \notin DOMAIN cur THEN NilRef
        ELSE LET bucket == cur[cursorHash]
                 same == {i \in 1..Len(bucket) : sameEndpoints(objs[bucket[i]], endpoints)}
             IN  IF Len(bucket) = 1 THEN bucket[1]
                 ELSE IF same = {} THEN NilRef
                 ELSE bucket[CHOOSE i \in same : \A k \in same : i <= k]

newCursor(endpoints) ==
    [index |-> 0, hash |-> computeHash(endpoints), item |-> NilRef, endpointIds |-> endpoints]

\* addCursor: the bucket of the cursor's hash gets the new reference appended
addCursor(cur, ref, hash) ==
    IF hash \notin DOMAIN cur
    THEN [k \in DOMAIN cur \cup {hash} |-> IF k = hash THEN <<ref>> ELSE cur[k]]
    ELSE [cur EXCEPT ![hash] = Append(@, ref)]

cursorIndex(cur, ref, hash) ==
    IF hash \notin DOMAIN cur THEN -1
    ELSE LET at == {i \in 1..Len(cur[hash]) : cur[hash][i] = ref}
         IN  IF at = {} THEN -1 ELSE (CHOOSE i \in at : \A k \in at : i <= k) - 1

\* Mutant of deleteCursor: the cursor stays in the table
deleteCursorKept(cur, ref, hash) == cur

deleteCursor(cur, ref, hash) ==
    LET index == cursorIndex(cur, ref, hash)
    IN  IF hash \notin DOMAIN cur \/ index = -1 THEN cur
        ELSE IF index = 0 /\ Len(cur[hash]) = 1
        THEN [k \in DOMAIN cur \ {hash} |-> cur[k]]
        ELSE [cur EXCEPT ![hash] = SubSeq(@, 1, index) \o SubSeq(@, index + 2, Len(@))]

\* Mutant of the expiry loop: an item expiring exactly now is kept
RECURSIVE ExpireLoopStrict(_, _, _)
ExpireLoopStrict(cur, h, now) ==
    IF Len(h.q) = 0 THEN [cursors |-> cur, h |-> h]
    ELSE IF h.it[HPeek(h)].priority >= now THEN [cursors |-> cur, h |-> h]
    ELSE LET popped == HPop(h)
             c == popped.h.it[popped.ref].c
         IN  ExpireLoopStrict(deleteCursor(cur, c, cursorObjs[c].hash), popped.h, now)

\* The loop of deleteExpiredCursors: pop while the root's priority <= now
RECURSIVE ExpireLoop(_, _, _)
ExpireLoop(cur, h, now) ==
    IF Len(h.q) = 0 THEN [cursors |-> cur, h |-> h]
    ELSE IF h.it[HPeek(h)].priority > now THEN [cursors |-> cur, h |-> h]
    ELSE LET popped == HPop(h)
             c == popped.h.it[popped.ref].c
         IN  ExpireLoop(deleteCursor(cur, c, cursorObjs[c].hash), popped.h, now)

\* The cursors the table holds
MapRefs(cur) == UNION {Range(cur[k]) : k \in DOMAIN cur}

\* Objects nothing refers to any more are garbage and leave the model
Restrict(f, S) == [x \in DOMAIN f \cap S |-> f[x]]

InitCursor ==
    /\ cursors = <<>>
    /\ cursorObjs = <<>>
    /\ pqItems = <<>>
    /\ expiryTimes = <<>>
    /\ allocated = 0
    /\ served = <<>>
    /\ cmOut = [op |-> "none"]

\* The two branches of upsertCursor
upsertExisting(endpoints, expiryTime, c, prev) ==
    \E h \in {HUpdate([q |-> expiryTimes, it |-> pqItems], cursorObjs[c].item, expiryTime)} :
        /\ pqItems' = h.it
        /\ expiryTimes' = h.q
        /\ served' = [l \in DOMAIN served \cup {endpoints} |->
                         IF l = endpoints THEN c ELSE served[l]]
        /\ cmOut' = [op |-> "upsert", endpoints |-> endpoints, expiry |-> expiryTime,
                     cursor |-> c, created |-> FALSE, prev |-> prev]
        /\ UNCHANGED <<cursors, cursorObjs, allocated>>

upsertNew(endpoints, expiryTime, ref, prev) ==
    LET obj == [newCursor(endpoints) EXCEPT !.item = ref]
        its == [r \in DOMAIN pqItems \cup {ref} |->
                   IF r = ref THEN [c |-> ref, priority |-> expiryTime, index |-> -1]
                   ELSE pqItems[r]]
    IN  \E h \in {HPush([q |-> expiryTimes, it |-> its], ref)} :
            /\ allocated < MaxAlloc
            /\ allocated' = ref
            /\ cursors' = addCursor(cursors, ref, obj.hash)
            /\ cursorObjs' = [r \in DOMAIN cursorObjs \cup {ref} |->
                                 IF r = ref THEN obj ELSE cursorObjs[r]]
            /\ pqItems' = h.it
            /\ expiryTimes' = h.q
            /\ served' = [l \in DOMAIN served \cup {endpoints} |->
                             IF l = endpoints THEN ref ELSE served[l]]
            /\ cmOut' = [op |-> "upsert", endpoints |-> endpoints, expiry |-> expiryTime,
                         cursor |-> ref, created |-> TRUE, prev |-> prev]

upsertCursor(endpoints, expiryTime) ==
    \E c \in {getCursor(cursors, cursorObjs, endpoints)} :
        LET prev == IF endpoints \in DOMAIN served THEN served[endpoints] ELSE NilRef
        IN  IF c # NilRef
            THEN upsertExisting(endpoints, expiryTime, c, prev)
            ELSE upsertNew(endpoints, expiryTime, allocated + 1, prev)

deleteExpiredCursors(now) ==
    \E r \in {ExpireLoop(cursors, [q |-> expiryTimes, it |-> pqItems], now)} :
        LET live == MapRefs(r.cursors) \cup Range(r.h.q)
        IN  /\ cursors' = r.cursors
            /\ expiryTimes' = r.h.q
            /\ pqItems' = Restrict(r.h.it, Range(r.h.q))
            /\ cursorObjs' = Restrict(cursorObjs, live)
            /\ served' = [l \in {x \in DOMAIN served : served[x] \in live} |-> served[l]]
            /\ cmOut' = [op |-> "gc", now |-> now,
                         before |-> {<<c, pqItems[cursorObjs[c].item].priority>> :
                                        c \in MapRefs(cursors)}]
            /\ UNCHANGED allocated

\* cursor.next (lines 432-444).  The endpoints of a list are numbered 1..N in
\* list order; the cursor's index counts from 0.
MaxEndpoints == 3

NoEndpoint == 0

\* The lists handed to next, each as its endpoints' IsActive answers
ActiveLists == UNION {[1..n -> BOOLEAN] : n \in 0..MaxEndpoints}

\* Mutant of advance: the index stays where it is
advanceStay(index, n) == index

\* c.index = (c.index + 1) % len(endpoints)
advance(index, n) == (index + 1) % n

\* The loop of next from its i-th iteration, the cursor at index: the endpoint
\* returned, whether the error was returned, the index left behind and the
\* endpoints examined, in order
RECURSIVE nextLoop(_, _, _)
nextLoop(i, index, active) ==
    IF i >= Len(active)
    THEN [endpoint |-> NoEndpoint, err |-> TRUE, index |-> index, examined |-> <<>>]
    ELSE LET endpoint == index + 1
             r == nextLoop(i + 1, advance(index, Len(active)), active)
         IN  IF active[endpoint]
             THEN [endpoint |-> endpoint, err |-> FALSE,
                   index |-> advance(index, Len(active)), examined |-> <<endpoint>>]
             ELSE [r EXCEPT !.examined = <<endpoint>> \o @]

next(index, active) == nextLoop(0, index, active)

\* cursor.next(endpoints) on the cursor upsertCursor returned for endpoints,
\* the endpoints answering IsActive as in active: the loop reads
\* endpoints[c.index] first, which panics when the index is not below the
\* length of the list; otherwise the index advances as next leaves it.
\* (The balancer hands next the endpoints it found active.)
cursorNext(endpoints, active) ==
    /\ endpoints \in DOMAIN served
    /\ served[endpoints] \in DOMAIN cursorObjs
    /\ \E c \in {served[endpoints]} :
          IF cursorObjs[c].index >= Len(endpoints)
          THEN /\ cmOut' = [op |-> "next", endpoints |-> endpoints, cursor |-> c,
                            index |-> cursorObjs[c].index, panic |-> TRUE]
               /\ UNCHANGED cursorObjs
          ELSE \E r \in {next(cursorObjs[c].index, active)} :
               /\ cmOut' = [op |-> "next", endpoints |-> endpoints, cursor |-> c,
                            index |-> cursorObjs[c].index, panic |-> FALSE]
               /\ cursorObjs' = [cursorObjs EXCEPT ![c].index = r.index]
    /\ UNCHANGED <<cursors, pqItems, expiryTimes, allocated, served>>

DoCursorNext ==
    (\E endpoints \in EndpointLists :
        \E active \in {[i \in 1..Len(endpoints) |-> TRUE]} : cursorNext(endpoints, active))
    /\ UNCHANGED <<varsMatch, varsFsm, varsForward, varsCalls>>

DoUpsertCursor ==
    (\E endpoints \in EndpointLists, t \in 1..MaxTime : upsertCursor(endpoints, t))
    /\ UNCHANGED <<varsMatch, varsFsm, varsForward, varsCalls>>

DoDeleteExpiredCursors ==
    (\E now \in 0..MaxTime : deleteExpiredCursors(now)) /\ UNCHANGED <<varsMatch, varsFsm, varsForward, varsCalls>>

NextCursor == DoUpsertCursor \/ DoDeleteExpiredCursors

\* The table's operations together with the balancer's use of the cursors
NextCursorUse == DoUpsertCursor \/ DoDeleteExpiredCursors \/ DoCursorNext

(***************************************************************************)
(* Claims about the cursor table                                           *)
(***************************************************************************)
\* The expiry of a cursor is the priority of the heap item it refers to
ExpiryOf(c) == pqItems[cursorObjs[c].item].priority

\* C2 as stated: an upsert for an endpoint-id sequence that was upserted before
\* (its cursor not evicted since) returns that same cursor object, and an upsert
\* never returns a cursor that was created for a different id sequence, equal
\* hashes included.
C2_CursorEquality ==
    cmOut.op = "upsert" =>
        /\ cmOut.prev # NilRef => cmOut.cursor = cmOut.prev
        /\ cursorObjs[cmOut.cursor].endpointIds = cmOut.endpoints

\* C3: right after deleteExpiredCursors(now), no cursor of the map and no item of
\* the heap has expiry <= now, every cursor that had expiry > now before the call
\* is still in the map, and the heap holds as many items as the map holds cursors.
C3_GcCompleteness ==
    cmOut.op = "gc" =>
        /\ \A c \in MapRefs(cursors) : ExpiryOf(c) > cmOut.now
        /\ \A i \in 1..Len(expiryTimes) : pqItems[expiryTimes[i]].priority > cmOut.now
        /\ \A b \in cmOut.before : b[2] > cmOut.now => b[1] \in MapRefs(cursors)
        /\ Len(expiryTimes) = Cardinality(MapRefs(cursors))

\* C3 witness: a GC that evicted one cursor, one expiring exactly at `now`, and
\* kept another
C3_Witness ==
    /\ cmOut.op = "gc"
    /\ \E b \in cmOut.before : b[2] = cmOut.now /\ b[1] \notin MapRefs(cursors)
    /\ \E b \in cmOut.before : b[2] > cmOut.now /\ b[1] \in MapRefs(cursors)

\* C27: whenever cursor.next(endpoints) runs on the cursor upsertCursor
\* returned for that endpoint list, the cursor's index is below the length of
\* the list, so indexing the list does not go out of range.
C27_IndexInRange ==
    cmOut.op = "next" =>
        /\ cmOut.index >= 0
        /\ cmOut.index < Len(cmOut.endpoints)
        /\ ~cmOut.panic

\* The number of cursor references the table holds, over all buckets
RECURSIVE BucketTotal(_, _)
BucketTotal(cur, keys) ==
    IF keys = {} THEN 0
    ELSE LET k == CHOOSE x \in keys : TRUE
         IN  Len(cur[k]) + BucketTotal(cur, keys \ {k})

\* C19: the cursors in the table and the items in the expiry heap correspond
\* one to one: every cursor of the table refers to an item of the heap that
\* refers back to it, every item of the heap refers to a cursor of the table
\* that refers back to it, and neither holds an entry twice.
C19_MapHeapBijection ==
    /\ BucketTotal(cursors, DOMAIN cursors) = Cardinality(MapRefs(cursors))
    /\ Cardinality(Range(expiryTimes)) = Len(expiryTimes)
    /\ Cardinality(MapRefs(cursors)) = Len(expiryTimes)
    /\ \A c \in MapRefs(cursors) :
          /\ c \in DOMAIN cursorObjs
          /\ cursorObjs[c].item \in Range(expiryTimes)
          /\ pqItems[cursorObjs[c].item].c = c
    /\ \A i \in Range(expiryTimes) :
          /\ i \in DOMAIN pqItems
          /\ pqItems[i].c \in MapRefs(cursors)
          /\ cursorObjs[pqItems[i].c].item = i

\* C19 witness: a collection took one of three cursors away and the two that
\* remain are both in the table and in the heap.
C19_Witness ==
    /\ cmOut.op = "gc"
    /\ Cardinality(cmOut.before) = 3
    /\ Cardinality(MapRefs(cursors)) = 2
    /\ Len(expiryTimes) = 2

(***************************************************************************)
(* WEIGHT-ADJUSTMENT FSM (src/unnamed/part_002, lines 1-245)               *)
(* Fail rates are percentages; the handler's timer is kept relative to the *)
(* time provider's clock, which advances in ticks.                         *)
(***************************************************************************)
FSMMaxWeight == 4096
FSMGrowFactor == 16

\* backoffDuration (half the meter's window) in ticks
BackoffTicks == 1

\* The endpoint sets handed to the handler, each as its endpoints' original weights
EndpointSets == {<<1>>, <<1, 1>>, <<2, 2>>, <<5000, 1>>, <<1, 1, 1>>, <<2, 4, 2>>}

FailRateChoices == {0, 80}

Abs(x) == IF x < 0 THEN -x ELSE x

\* gcd: the greatest common divisor of two weights
gcd[a \in Nat, b \in Nat] == IF b = 0 THEN a ELSE gcd[b, a % b]

increase(weight) == weight * FSMGrowFactor

\* Mutant of decrease: the division result is returned without the floor at target
decreaseUnfloored(target, current) == current \div FSMGrowFactor

decrease(target, current) ==
    LET adjusted == current \div FSMGrowFactor
    IN  IF adjusted < target THEN target ELSE adjusted

\* weightsGcd: -1 for no weights, else the gcd of all of them
weightsGcdFrom[divisor \in Int, weights \in Seq(Nat)] ==
    IF weights = <<>> THEN divisor
    ELSE weightsGcdFrom[IF divisor = -1 THEN Head(weights) ELSE gcd[divisor, Head(weights)],
                        Tail(weights)]

weightsGcd[weights \in Seq(Nat)] == weightsGcdFrom[-1, weights]

normalizeWeights[weights \in Seq(Nat)] ==
    LET g == weightsGcd[weights]
    IN  IF g <= 1 THEN weights ELSE [i \in DOMAIN weights |-> weights[i] \div g]

\* sort.Sort / sort.Float64s followed by an index: the value at position k
\* (from 1) of the values in ascending order
SortedAt(values, k) ==
    CHOOSE v \in Range(values) :
        /\ Cardinality({i \in DOMAIN values : values[i] < v}) < k
        /\ k <= Cardinality({i \in DOMAIN values : values[i] <= v})

\* median and medianEndpoint, times two so that the mean of the two middle
\* values of an even-length list stays an integer
medianTimes2[values \in Seq(Nat)] ==
    LET l == Len(values)
    IN  IF l % 2 # 0 THEN 2 * SortedAt(values, (l \div 2) + 1)
        ELSE SortedAt(values, l \div 2) + SortedAt(values, (l \div 2) + 1)

\* medianAbsoluteDeviation, times two
medianAbsoluteDeviationTimes2[values \in Seq(Nat)] ==
    LET m2 == medianTimes2[values]
    IN  medianTimes2[[i \in DOMAIN values |-> Abs(2 * values[i] - m2)]] \div 2

\* min: the lowest fail rate
minRate(values) == CHOOSE v \in Range(values) : \A w \in Range(values) : v <= w

\* splitEndpoints: the set of bad endpoints (the others are good).
\* e.failRate() > m + mAbs*1.5, with both sides multiplied by 4
splitBad[rates \in Seq(Nat)] ==
    LET newEndpoints == IF Len(rates) % 2 = 0 THEN Append(rates, minRate(rates)) ELSE rates
        m2 == medianTimes2[newEndpoints]
        mAbs2 == medianAbsoluteDeviationTimes2[newEndpoints]
    IN  {i \in DOMAIN rates : 4 * rates[i] > (2 * m2) + (3 * mAbs2)}

\* Mutant of convergeWeights: changed tells whether the vector returned
\* differs from the effective weights
convergeWeightsChangedByResult(orig, eff) ==
    [weights |-> normalizeWeights[[i \in DOMAIN orig |-> decrease(orig[i], eff[i])]],
     changed |-> normalizeWeights[[i \in DOMAIN orig |-> decrease(orig[i], eff[i])]] # eff]

\* convergeWeights
convergeWeights(orig, eff) ==
    [weights |-> normalizeWeights[[i \in DOMAIN orig |-> decrease(orig[i], eff[i])]],
     changed |-> \E i \in DOMAIN orig : eff[i] # orig[i]]

\* Mutant of adjustWeights: good endpoints grow without the cap
adjustWeightsUncapped(eff, bad) ==
    normalizeWeights[[i \in DOMAIN eff |-> IF i \notin bad THEN increase(eff[i]) ELSE eff[i]]]

\* Mutant of adjustWeights: the vector is returned as computed
adjustWeightsUnnormalized(eff, bad) ==
    [i \in DOMAIN eff |->
        IF i \notin bad /\ increase(eff[i]) <= FSMMaxWeight THEN increase(eff[i]) ELSE eff[i]]

\* Mutant of adjustWeights: the bad endpoints grow like the good ones
adjustWeightsGrowAll(eff, bad) ==
    normalizeWeights[[i \in DOMAIN eff |->
        IF increase(eff[i]) <= FSMMaxWeight THEN increase(eff[i]) ELSE eff[i]]]

\* adjustWeights
adjustWeights(eff, bad) ==
    normalizeWeights[[i \in DOMAIN eff |->
        IF i \notin bad /\ increase(eff[i]) <= FSMMaxWeight THEN increase(eff[i]) ELSE eff[i]]]

metricsReady(ready) == \A i \in DOMAIN ready : ready[i]

\* Mutant of timerExpired: the timer counts as expired at every call
timerExpiredAlways == TRUE

timerExpired == timerLeft < 0

\* NewFSMHandler followed by Init(endpoints) on fresh endpoints
InitFsm ==
    /\ originalWeights \in EndpointSets
    /\ effectiveWeights = originalWeights
    /\ failRates = [i \in DOMAIN originalWeights |-> 0]
    /\ meterReady = [i \in DOMAIN originalWeights |-> FALSE]
    /\ lastWeights = originalWeights
    /\ timerLeft = -1
    /\ steady = FALSE
    /\ fsmOut = [branch |-> "none", weights |-> <<>>]

\* FSMHandler.Init on the endpoints as they are now
FsmInit ==
    /\ ~steady
    /\ lastWeights' = originalWeights
    /\ timerLeft' = -1
    /\ fsmOut' = [branch |-> "init", weights |-> <<>>]
    /\ UNCHANGED <<originalWeights, effectiveWeights, failRates, meterReady, steady>>

\* What one call of FSMHandler.AdjustWeights returns and leaves behind:
\* the branch taken, the weights returned, fsm.lastWeights and the timer
adjustResult ==
    IF Len(originalWeights) < 2
    THEN [branch |-> "few", weights |-> originalWeights, last |-> lastWeights, timer |-> timerLeft]
    ELSE IF ~metricsReady(meterReady)
    THEN [branch |-> "notready", weights |-> originalWeights, last |-> lastWeights, timer |-> timerLeft]
    ELSE IF ~timerExpired
    THEN [branch |-> "debounce", weights |-> lastWeights, last |-> lastWeights, timer |-> timerLeft]
    ELSE LET bad == splitBad[failRates]
         IN  IF bad = {} \/ bad = DOMAIN failRates
             THEN LET cw == convergeWeights(originalWeights, effectiveWeights)
                  IN  IF cw.changed
                      THEN [branch |-> "converge", weights |-> cw.weights, last |-> cw.weights,
                            timer |-> BackoffTicks]
                      ELSE [branch |-> "keep", weights |-> lastWeights, last |-> lastWeights,
                            timer |-> timerLeft]
             ELSE LET w == adjustWeights(effectiveWeights, bad)
                  IN  [branch |-> "diverge", weights |-> w, last |-> w, timer |-> BackoffTicks]

\* One endpoint selection of the balancer, under its lock: it calls
\* FSMHandler.AdjustWeights and sets every endpoint's effective weight to the
\* weight returned for it.  fsmOut keeps the call's result together with the
\* effective weights and the timer the call started from.
AdjustWeights ==
    \E r \in {adjustResult} :
        /\ lastWeights' = r.last
        /\ timerLeft' = r.timer
        /\ effectiveWeights' = r.weights
        /\ fsmOut' = [branch |-> r.branch, weights |-> r.weights]
        /\ UNCHANGED <<originalWeights, failRates, meterReady, steady>>

\* The meters observe traffic: an endpoint's fail rate changes, or its window
\* fills up and its meter becomes ready
Observe ==
    /\ ~steady
    /\ \E i \in DOMAIN failRates :
          \/ \E r \in FailRateChoices : failRates' = [failRates EXCEPT ![i] = r] /\ UNCHANGED meterReady
          \/ ~meterReady[i] /\ meterReady' = [meterReady EXCEPT ![i] = TRUE] /\ UNCHANGED failRates
    /\ UNCHANGED <<originalWeights, effectiveWeights, lastWeights, timerLeft, steady, fsmOut>>

\* From here on every meter is ready and every endpoint has the same fail rate
Settle ==
    /\ ~steady
    /\ Len(originalWeights) >= 2
    /\ steady' = TRUE
    /\ \E r \in FailRateChoices : failRates' = [i \in DOMAIN failRates |-> r]
    /\ meterReady' = [i \in DOMAIN meterReady |-> TRUE]
    /\ UNCHANGED <<originalWeights, effectiveWeights, lastWeights, timerLeft, fsmOut>>

\* The time provider's clock advances by one tick
Tick ==
    /\ timerLeft' = IF timerLeft < 0 THEN timerLeft ELSE timerLeft - 1
    /\ UNCHANGED <<originalWeights, effectiveWeights, failRates, meterReady, lastWeights,
                   steady, fsmOut>>

DoFsmInit == FsmInit /\ UNCHANGED <<varsMatch, varsCursor, varsForward, varsCalls>>

DoAdjustWeights == AdjustWeights /\ UNCHANGED <<varsMatch, varsCursor, varsForward, varsCalls>>

DoObserve == Observe /\ UNCHANGED <<varsMatch, varsCursor, varsForward, varsCalls>>

DoSettle == Settle /\ UNCHANGED <<varsMatch, varsCursor, varsForward, varsCalls>>

DoTick == Tick /\ UNCHANGED <<varsMatch, varsCursor, varsForward, varsCalls>>

NextFsm == DoFsmInit \/ DoAdjustWeights \/ DoObserve \/ DoSettle \/ DoTick

(***************************************************************************)
(* Claims about the weight-adjustment FSM                                  *)
(***************************************************************************)
\* C4 as stated: once all fail rates are equal for good (meters ready, two or
\* more endpoints), AdjustWeights eventually returns exactly the original
\* weights and keeps returning them.
C4_ReturnsOriginals == <>[](steady => fsmOut.weights = originalWeights)

\* C4 amended: under the same conditions AdjustWeights eventually returns, and
\* keeps returning, the original weights or the original weights divided by
\* their GCD (the same thing when that GCD is 1).
C4_ReturnsOriginalRatios ==
    <>[](steady => fsmOut.weights \in {originalWeights, normalizeWeights[originalWeights]})

\* C4 witness: in the steady phase a converge step has returned the originals
\* divided by their GCD, which is greater than 1
C4_Witness ==
    /\ steady
    /\ fsmOut.branch = "converge"
    /\ fsmOut.weights = normalizeWeights[originalWeights]
    /\ fsmOut.weights # originalWeights

C21_DebounceReturnsPrevious ==
    [][(/\ DoAdjustWeights
        /\ Len(originalWeights) >= 2
        /\ \A i \in DOMAIN meterReady : meterReady[i]
        /\ timerLeft >= 0)
       => (/\ fsmOut'.weights = fsmOut.weights
           /\ fsmOut.branch \in {"converge", "diverge", "debounce"}
           /\ lastWeights' = lastWeights
           /\ timerLeft' = timerLeft
           /\ effectiveWeights' = effectiveWeights)]_vars

\* C21 witness: a call inside the debounce window returned weights that a
\* diverge step had published, a bad endpoint being present all the while
C21_Witness ==
    /\ fsmOut.branch = "debounce"
    /\ fsmOut.weights # originalWeights
    /\ fsmOut.weights = lastWeights
    /\ timerLeft >= 0
    /\ splitBad[failRates] # {}

\* An AdjustWeights call with two or more endpoints, all meters ready and the
\* timer expired, the MAD rule finding both good and bad endpoints
C22_DivergeCall ==
    /\ DoAdjustWeights
    /\ Len(originalWeights) >= 2
    /\ \A i \in DOMAIN meterReady : meterReady[i]
    /\ timerLeft < 0
    /\ splitBad[failRates] # {}
    /\ splitBad[failRates] # DOMAIN failRates

\* The vector the diverge step computes: sixteen times the effective weight
\* for a good endpoint whose product does not pass 4096, the effective weight
\* for every other endpoint
C22_Grown ==
    [i \in DOMAIN effectiveWeights |->
        IF i \notin splitBad[failRates] /\ effectiveWeights[i] * 16 <= 4096
        THEN effectiveWeights[i] * 16 ELSE effectiveWeights[i]]

\* C22 as stated: a diverge step publishes the grown vector as it is and
\* restarts the timer.
C22_DivergePublishesGrown ==
    [][C22_DivergeCall =>
          /\ fsmOut'.weights = C22_Grown
          /\ lastWeights' = C22_Grown
          /\ timerLeft' = BackoffTicks]_vars

\* C22 amended: a diverge step publishes the grown vector divided by the GCD
\* of its weights when that GCD is greater than 1 (so the outlier's weight and
\* the factor of the healthy ones shrink by that GCD), and restarts the timer.
C22_DivergePublishesNormalized ==
    [][C22_DivergeCall =>
          /\ fsmOut'.weights = normalizeWeights[C22_Grown]
          /\ lastWeights' = normalizeWeights[C22_Grown]
          /\ timerLeft' = BackoffTicks]_vars

\* C22 witness: of the endpoints weighted 2, 4, 2 the third is the outlier; the
\* diverge step computed 32, 64, 2 and published 16, 32, 1
C22_Witness ==
    /\ fsmOut.branch = "diverge"
    /\ originalWeights = <<2, 4, 2>>
    /\ splitBad[failRates] = {3}
    /\ fsmOut.weights = <<16, 32, 1>>
    /\ timerLeft = BackoffTicks

\* An AdjustWeights call with two or more endpoints, all meters ready and the
\* timer expired, the good or the bad partition being empty
C23_ConvergeCall ==
    /\ DoAdjustWeights
    /\ Len(originalWeights) >= 2
    /\ \A i \in DOMAIN meterReady : meterReady[i]
    /\ timerLeft < 0
    /\ splitBad[failRates] \in {{}, DOMAIN failRates}

\* new_weight = max(original, effective / 16) for each endpoint
C23_Shrunk ==
    [i \in DOMAIN effectiveWeights |->
        Max2(originalWeights[i], effectiveWeights[i] \div 16)]

\* C23 as stated: the converge step publishes the vector of new weights and
\* restarts the timer when some endpoint's weight changed, and otherwise
\* returns the last published weights and leaves the timer alone.
C23_ConvergePublishesShrunk ==
    [][C23_ConvergeCall =>
          IF C23_Shrunk # effectiveWeights
          THEN /\ fsmOut'.weights = C23_Shrunk
               /\ lastWeights' = C23_Shrunk
               /\ timerLeft' = BackoffTicks
          ELSE /\ fsmOut'.weights = lastWeights
               /\ lastWeights' = lastWeights
               /\ timerLeft' = timerLeft]_vars

\* C23 amended: when some endpoint's effective weight differs from its
\* original weight the converge step publishes the vector of new weights
\* divided by the GCD of its weights when that GCD is greater than 1 and
\* restarts the timer, also when the published vector equals the effective
\* weights; otherwise it returns the last published weights and leaves the
\* timer alone.
C23_ConvergePublishesNormalized ==
    [][C23_ConvergeCall =>
          IF effectiveWeights # originalWeights
          THEN /\ fsmOut'.weights = normalizeWeights[C23_Shrunk]
               /\ lastWeights' = normalizeWeights[C23_Shrunk]
               /\ timerLeft' = BackoffTicks
          ELSE /\ fsmOut'.weights = lastWeights
               /\ lastWeights' = lastWeights
               /\ timerLeft' = timerLeft]_vars

\* C23 witness: the endpoints weighted 2, 2 had been moved off their original
\* weights; a converge step computed 2, 2, published 1, 1 and restarted the
\* timer
C23_Witness ==
    /\ fsmOut.branch = "converge"
    /\ ~steady
    /\ originalWeights = <<2, 2>>
    /\ fsmOut.weights = <<1, 1>>
    /\ lastWeights = <<1, 1>>
    /\ timerLeft = BackoffTicks

\* The numbers that divide every weight of a vector
CommonDivisors(v) ==
    LET least == CHOOSE m \in Range(v) : \A x \in Range(v) : m <= x
    IN  {d \in 1..least : \A i \in DOMAIN v : v[i] % d = 0}

\* C24: the vector a converge or diverge step publishes is the computed
\* vector divided element-wise by the GCD of its weights: one number g
\* divides every computed weight into the published one, the published
\* weights have no common divisor but 1 (so g is the GCD), and they stand in
\* the same ratios as the computed ones.
C24_PublishedNormalized ==
    [][(C22_DivergeCall \/ (C23_ConvergeCall /\ effectiveWeights # originalWeights)) =>
          LET computed == IF splitBad[failRates] \in {{}, DOMAIN failRates}
                          THEN C23_Shrunk ELSE C22_Grown
              published == fsmOut'.weights
          IN  /\ DOMAIN published = DOMAIN computed
              /\ \A i \in DOMAIN computed : computed[i] > 0 /\ published[i] > 0
              /\ \A i \in DOMAIN computed :
                     published[i] * (computed[1] \div published[1]) = computed[i]
              /\ lastWeights' = published
              /\ CommonDivisors(published) = {1}
              /\ \A i, j \in DOMAIN computed :
                     published[i] * computed[j] = published[j] * computed[i]]_vars

\* C24 witness: a diverge step on the endpoints weighted 2, 4, 2 whose second
\* endpoint is the outlier computed 32, 4, 32, of GCD 4, and published 8, 1, 8
C24_Witness ==
    /\ fsmOut.branch = "diverge"
    /\ originalWeights = <<2, 4, 2>>
    /\ splitBad[failRates] = {2}
    /\ fsmOut.weights = <<8, 1, 8>>
    /\ CommonDivisors(fsmOut.weights) = {1}

(***************************************************************************)
(* The forwarders: ReverseProxy.ServeHTTP (proxy.go) and                   *)
(* HttpLocation.RoundTrip (httploc)                                        *)
(***************************************************************************)
\* Longest request body, in bytes
MaxBodyLen == 2

Upstreams == {"U1", "U2", "U3"}

\* instructions.Upstreams as the control server may return them
UpstreamLists == {<<"U1">>, <<"U1", "U2">>, <<"U1", "U2", "U3">>}

\* The endpoints a location's load balancer may hold
EndpointChoices == {<<>>, <<"U1">>, <<"U1", "U2">>}

Methods == {"GET", "POST"}

Bodies == {[i \in 1..n |-> i] : n \in 0..MaxBodyLen}

\* What an upstream does with a request: the transport's RoundTrip fails
\* (Refused, no response), or the upstream answers with a status code
Refused == 0

Answers == {Refused, 200, 502}

StatusBadRequest == 400

StatusInternalServerError == 500

StatusBadGateway == 502

NewHttpError(statusCode) == [failed |-> TRUE, http |-> TRUE, status |-> statusCode]

TooManyRequestsError == [failed |-> TRUE, http |-> TRUE, status |-> 429]

\* an error that is not an *HttpError
OtherError == [failed |-> TRUE, http |-> FALSE, status |-> 0]

NoError == [failed |-> FALSE, http |-> FALSE, status |-> 0]

\* The errors sortedUrls and getInstructions may return: the control server
\* rejected the request, or no control server could be asked
ControlErrors == {NewHttpError(403), OtherError}

NoReturn == [kind |-> "none", status |-> 0, from |-> "none"]

Perms(n) == {p \in [1..n -> 1..n] : \A i, j \in 1..n : p[i] = p[j] => i = j}

\* The members of ups at the positions in S, in the order of ups
Pick(ups, S) ==
    LET F[k \in 0..Len(ups)] ==
            IF k = 0 THEN <<>>
            ELSE IF k \in S THEN Append(F[k - 1], ups[k]) ELSE F[k - 1]
    IN  F[Len(ups)]

\* throttler.throttle: the backend is down (err), or the upstreams that still
\* have room, none of them included
ThrottleResults(ups) ==
    {[err |-> TRUE, stats |-> <<>>]}
        \cup {[err |-> FALSE, stats |-> Pick(ups, S)] : S \in SUBSET (1..Len(ups))}

\* loadBalancer.sortedUpstreams: the upstreams in the order the balancer picks
sortedUpstreams(ups, order) == [i \in 1..Len(ups) |-> ups[order[i]]]

\* loadBalancer.sortedUpstreamsByStats
sortedUpstreamsByStats(stats, order) == [i \in 1..Len(stats) |-> stats[order[i]]]

\* Mutant of getUpstreams: a throttler failure rejects the request
getUpstreamsStrict(t, ups, order) ==
    IF t.err \/ Len(t.stats) = 0
    THEN [err |-> TooManyRequestsError, upstreams |-> <<>>]
    ELSE [err |-> NoError, upstreams |-> sortedUpstreamsByStats(t.stats, order)]

\* ReverseProxy.getUpstreams
getUpstreams(t, ups, order) ==
    IF t.err
    THEN [err |-> NoError, upstreams |-> sortedUpstreams(ups, order)]
    ELSE IF Len(t.stats) = 0
    THEN [err |-> TooManyRequestsError, upstreams |-> <<>>]
    ELSE [err |-> NoError, upstreams |-> sortedUpstreamsByStats(t.stats, order)]

\* Mutant of SeekStart: the reader is left where the last attempt stopped
SeekStartOmitted(pos) == pos

\* reader.Seek(0, 0) at the top of every iteration: the new reader position
SeekStart(pos) == 0

\* The numbers of body bytes the transport may read from position pos before
\* RoundTrip returns: any number when it fails, all that is left when the
\* upstream answers
Consumed(u, pos) ==
    IF answers[u] = Refused THEN 0..(Len(body) - pos) ELSE {Len(body) - pos}

\* Mutant of proxyToUpstream: a failed attempt writes the error document itself
proxyToUpstreamRepliesOnError(u, pos, n) ==
    [err |-> IF answers[u] = Refused THEN NewHttpError(StatusBadGateway) ELSE NoError,
     attempt |-> [endpoint |-> u, start |-> pos, sent |-> SubSeq(body, pos + 1, pos + n),
                  status |-> answers[u], error |-> answers[u] = Refused, via |-> "transport",
                  events |-> <<>>],
     write |-> IF answers[u] = Refused THEN <<[status |-> StatusBadGateway, from |-> "proxy"]>>
               ELSE <<[status |-> answers[u], from |-> u]>>,
     pos |-> pos + n]

\* Mutant of proxyToUpstream: a 5xx answer counts as a failure of the upstream
proxyToUpstreamFailOn5xx(u, pos, n) ==
    [err |-> IF answers[u] = Refused \/ answers[u] >= 500
             THEN NewHttpError(StatusBadGateway) ELSE NoError,
     attempt |-> [endpoint |-> u, start |-> pos, sent |-> SubSeq(body, pos + 1, pos + n),
                  status |-> answers[u], error |-> answers[u] = Refused \/ answers[u] >= 500,
                  via |-> "transport", events |-> <<>>],
     write |-> IF answers[u] = Refused \/ answers[u] >= 500 THEN <<>>
               ELSE <<[status |-> answers[u], from |-> u]>>,
     pos |-> pos + n]

\* ReverseProxy.proxyToUpstream with the reader at pos, the transport reading
\* n bytes of the body: the error returned, the attempt made, what was written
\* to the downstream writer and the reader's new position
proxyToUpstream(u, pos, n) ==
    [err |-> IF answers[u] = Refused THEN NewHttpError(StatusBadGateway) ELSE NoError,
     attempt |-> [endpoint |-> u, start |-> pos, sent |-> SubSeq(body, pos + 1, pos + n),
                  status |-> answers[u], error |-> answers[u] = Refused, via |-> "transport",
                  events |-> <<>>],
     write |-> IF answers[u] = Refused THEN <<>> ELSE <<[status |-> answers[u], from |-> u]>>,
     pos |-> pos + n]

\* Mutant of ServeHTTPUpdateStats: the stats are updated whatever proxyRequest
\* returned
ServeHTTPUpdateStatsAlways(err, upstream, failed) ==
    <<[upstream |-> upstream, failed |-> failed]>>

\* The end of ServeHTTP: when proxyRequest returned an error the handler
\* replies and returns; otherwise updateStats is called for the upstream
\* proxyRequest returned, and its error is only logged.  The calls made.
ServeHTTPUpdateStats(err, upstream, failed) ==
    IF err.failed THEN <<>> ELSE <<[upstream |-> upstream, failed |-> failed]>>

\* Mutant of replyError: every error is answered with 500
replyErrorAlways500(err) == [status |-> StatusInternalServerError, from |-> "proxy"]

\* ReverseProxy.replyError: the status written to the downstream writer
replyError(err) ==
    [status |-> IF err.http THEN err.status ELSE StatusInternalServerError, from |-> "proxy"]

\* failover.MaxAttempts(n), failover.OnErrors, failover.OnGets
MaxAttempts(n, atts) == Len(atts) < n

OnErrors(atts) == Len(atts) # 0 /\ atts[Len(atts)].error

OnGets(m) == m = "GET"

DefaultMaxAttempts == 2

\* Mutant of ShouldFailover: any error is retried
ShouldFailoverOnErrors(m, atts) == OnErrors(atts)

\* options.ShouldFailover as parseOptions sets it when none is given
ShouldFailover(m, atts) ==
    MaxAttempts(DefaultMaxAttempts, atts) /\ OnErrors(atts) /\ OnGets(m)

\* What a middleware's ProcessRequest may do: let the request pass, answer
\* it, or fail it
Verdicts == {"pass", "response", "error"}

\* The sequence s in reverse order
Reverse(s) == [i \in 1..Len(s) |-> s[Len(s) + 1 - i]]

\* Mutant of proxyToEndpointEvents: the deferred calls run in the order they
\* were deferred
proxyToEndpointEventsFifo(verdict) ==
    <<"ObserveRequest", "ProcessRequest">>
        \o (IF verdict = "pass" THEN <<"transport.RoundTrip">> ELSE <<>>)
        \o <<"ObserveResponse", "AddAttempt", "ProcessResponse">>

\* HttpLocation.proxyToEndpoint: the calls it makes on the observer chain, the
\* middleware chain (of one middleware), the transport and the request, in
\* order.  ObserveResponse, AddAttempt and unwindIter (ProcessResponse) are
\* deferred in this order and run in the reverse of it when the function
\* returns or panics.
proxyToEndpointEvents(verdict) ==
    <<"ObserveRequest", "ProcessRequest">>
        \o (IF verdict = "pass" THEN <<"transport.RoundTrip">> ELSE <<>>)
        \o Reverse(<<"ObserveResponse", "AddAttempt", "ProcessResponse">>)

\* HttpLocation.proxyToEndpoint: the attempt added to the request, the reader's
\* new position, and whether the call panics (a middleware returned an error
\* and no response, and the log line reads a.Response.Status)
proxyToEndpoint(e, pos, n, verdict) ==
    IF verdict = "response"
    THEN [attempt |-> [endpoint |-> e, start |-> pos, sent |-> <<>>, status |-> 403,
                       error |-> FALSE, via |-> "middleware",
                       events |-> proxyToEndpointEvents(verdict)],
          pos |-> pos, panic |-> FALSE]
    ELSE IF verdict = "error"
    THEN [attempt |-> [endpoint |-> e, start |-> pos, sent |-> <<>>, status |-> Refused,
                       error |-> TRUE, via |-> "middleware",
                       events |-> proxyToEndpointEvents(verdict)],
          pos |-> pos, panic |-> TRUE]
    ELSE [attempt |-> [endpoint |-> e, start |-> pos, sent |-> SubSeq(body, pos + 1, pos + n),
                       status |-> answers[e], error |-> answers[e] = Refused,
                       via |-> "transport", events |-> proxyToEndpointEvents(verdict)],
          pos |-> pos + n, panic |-> FALSE]

\* No request is being served
InitForward ==
    /\ entry = "none"
    /\ pc = "idle"
    /\ method = "GET"
    /\ body = <<>>
    /\ answers = [u \in Upstreams |-> Refused]
    /\ readerPos = 0
    /\ failover = FALSE
    /\ instrUpstreams = <<>>
    /\ throttle = "none"
    /\ candidates = <<>>
    /\ nextUpstream = 1
    /\ attempts = <<>>
    /\ written = <<>>
    /\ statsFor = <<>>
    /\ ret = NoReturn
    /\ cancelledAt = -1

\* A request arrives: its method and body, and what each upstream will do
NewRequest(e, firstPc) ==
    /\ pc = "idle"
    /\ entry' = e
    /\ pc' = firstPc
    /\ \E m \in Methods : method' = m
    /\ \E b \in Bodies : body' = b
    /\ \E a \in [Upstreams -> Answers] : answers' = a
    /\ readerPos' = 0
    /\ failover' = FALSE
    /\ instrUpstreams' = <<>>
    /\ throttle' = "none"
    /\ nextUpstream' = 1
    /\ attempts' = <<>>
    /\ written' = <<>>
    /\ statsFor' = <<>>
    /\ ret' = NoReturn
    /\ cancelledAt' = -1

\* ServeHTTP is entered
ServeHTTP ==
    /\ NewRequest("ServeHTTP", "control")
    /\ candidates' = <<>>

\* replyError(err) followed by ServeHTTP's return
ReplyAndReturn(err) ==
    /\ written' = Append(written, replyError(err))
    /\ readerPos' = Len(body)
    /\ pc' = "done"

\* ServeHTTP: sortedUrls and getInstructions
GetInstructions ==
    /\ pc = "control"
    /\ \/ /\ \E err \in ControlErrors : ReplyAndReturn(err)
          /\ UNCHANGED <<failover, instrUpstreams>>
       \/ /\ \E f \in BOOLEAN : failover' = f
          /\ \E ups \in UpstreamLists : instrUpstreams' = ups
          /\ pc' = "upstreams"
          /\ UNCHANGED <<written, readerPos>>
    /\ UNCHANGED <<cancelledAt, entry, method, body, answers, throttle, candidates, nextUpstream,
                   attempts, statsFor, ret>>

\* ServeHTTP: getUpstreams
GetUpstreams ==
    /\ pc = "upstreams"
    /\ \E t \in ThrottleResults(instrUpstreams) :
       \E order \in Perms(Len(IF t.err THEN instrUpstreams ELSE t.stats)) :
       \E r \in {getUpstreams(t, instrUpstreams, order)} :
          /\ throttle' = IF t.err THEN "err" ELSE IF Len(t.stats) = 0 THEN "empty" ELSE "stats"
          /\ candidates' = r.upstreams
          /\ IF r.err.failed
             THEN ReplyAndReturn(r.err)
             ELSE pc' = "proxy" /\ UNCHANGED <<written, readerPos>>
    /\ UNCHANGED <<cancelledAt, entry, method, body, answers, failover, instrUpstreams, nextUpstream,
                   attempts, statsFor, ret>>

\* ServeHTTP: proxyRequest without failover, then updateStats or replyError
ProxyRequestNoFailover ==
    /\ pc = "proxy"
    /\ ~failover
    /\ \E n \in Consumed(candidates[1], readerPos) :
       \E r \in {proxyToUpstream(candidates[1], readerPos, n)} :
          /\ attempts' = Append(attempts, r.attempt)
          /\ \E failed \in BOOLEAN :
                statsFor' = statsFor \o ServeHTTPUpdateStats(r.err, candidates[1], failed)
          /\ IF r.err.failed
             THEN ReplyAndReturn(r.err)
             ELSE /\ written' = written \o r.write
                  /\ readerPos' = r.pos
                  /\ pc' = "done"
    /\ UNCHANGED <<cancelledAt, entry, method, body, answers, failover, instrUpstreams, throttle,
                   candidates, nextUpstream, ret>>

\* ServeHTTP: proxyRequest with failover reads the whole body into a buffer
ProxyRequestBuffer ==
    /\ pc = "proxy"
    /\ failover
    /\ \/ ReplyAndReturn(NewHttpError(StatusBadRequest))
       \/ readerPos' = 0 /\ pc' = "loop" /\ UNCHANGED written
    /\ UNCHANGED <<cancelledAt, entry, method, body, answers, failover, instrUpstreams, throttle,
                   candidates, nextUpstream, attempts, statsFor, ret>>

\* ServeHTTP: one iteration of proxyRequest's loop over the upstreams, then
\* updateStats when the upstream answered
ProxyRequestAttempt ==
    /\ pc = "loop"
    /\ nextUpstream <= Len(candidates)
    /\ \E u \in {candidates[nextUpstream]} :
       \E pos \in {SeekStart(readerPos)} :
       \E n \in Consumed(u, pos) :
       \E r \in {proxyToUpstream(u, pos, n)} :
          /\ attempts' = Append(attempts, r.attempt)
          /\ readerPos' = r.pos
          /\ written' = written \o r.write
          /\ IF r.err.failed
             THEN nextUpstream' = nextUpstream + 1 /\ UNCHANGED <<pc, statsFor>>
             ELSE /\ \E failed \in BOOLEAN :
                        statsFor' = statsFor \o ServeHTTPUpdateStats(r.err, u, failed)
                  /\ pc' = "done"
                  /\ UNCHANGED nextUpstream
    /\ UNCHANGED <<cancelledAt, entry, method, body, answers, failover, instrUpstreams, throttle,
                   candidates, ret>>

\* ServeHTTP: proxyRequest's loop ran out of upstreams
ProxyRequestAllFailed ==
    /\ pc = "loop"
    /\ nextUpstream > Len(candidates)
    /\ ReplyAndReturn(NewHttpError(StatusBadGateway))
    /\ \E failed \in BOOLEAN :
          statsFor' = statsFor \o ServeHTTPUpdateStats(NewHttpError(StatusBadGateway), "nil", failed)
    /\ UNCHANGED <<cancelledAt, entry, method, body, answers, failover, instrUpstreams, throttle,
                   candidates, nextUpstream, attempts, ret>>

\* HttpLocation.RoundTrip is entered for a request, the balancer holding some
\* endpoints
RoundTrip ==
    /\ NewRequest("RoundTrip", "roundtrip")
    /\ \E eps \in EndpointChoices : candidates' = eps

\* One iteration of RoundTrip's loop
RoundTripAttempt ==
    /\ pc = "roundtrip"
    /\ \E pos \in {SeekStart(readerPos)} :
          IF candidates = <<>>
          THEN /\ ret' = [kind |-> "error", status |-> 0, from |-> "balancer"]
               /\ readerPos' = pos
               /\ pc' = "done"
               /\ UNCHANGED attempts
          ELSE \E e \in Range(candidates), verdict \in Verdicts :
               \E n \in (IF verdict = "pass" THEN Consumed(e, pos) ELSE {0}) :
               \E r \in {proxyToEndpoint(e, pos, n, verdict)} :
               \E atts \in {Append(attempts, r.attempt)} :
                  /\ attempts' = atts
                  /\ readerPos' = r.pos
                  /\ IF r.panic
                     THEN pc' = "panic" /\ UNCHANGED ret
                     ELSE IF ShouldFailover(method, atts)
                     THEN UNCHANGED <<pc, ret>>
                     ELSE /\ ret' = IF r.attempt.error
                                    THEN [kind |-> "error", status |-> 0, from |-> e]
                                    ELSE [kind |-> "response", status |-> r.attempt.status,
                                          from |-> e]
                          /\ pc' = "done"
    /\ UNCHANGED <<cancelledAt, entry, method, body, answers, failover, instrUpstreams, throttle,
                   candidates, nextUpstream, written, statsFor>>

\* The entry point has returned (or panicked) and the request is gone
Finish ==
    /\ pc \in {"done", "panic"}
    /\ entry' = "none"
    /\ pc' = "idle"
    /\ method' = "GET"
    /\ body' = <<>>
    /\ answers' = [u \in Upstreams |-> Refused]
    /\ readerPos' = 0
    /\ failover' = FALSE
    /\ instrUpstreams' = <<>>
    /\ throttle' = "none"
    /\ candidates' = <<>>
    /\ nextUpstream' = 1
    /\ attempts' = <<>>
    /\ written' = <<>>
    /\ statsFor' = <<>>
    /\ ret' = NoReturn
    /\ cancelledAt' = -1

\* The downstream caller cancels the request while RoundTrip is serving it:
\* the number of attempts made so far is noted.  RoundTrip reads nothing that
\* tells it so.
Cancel ==
    /\ entry = "RoundTrip"
    /\ pc = "roundtrip"
    /\ cancelledAt = -1
    /\ cancelledAt' = Len(attempts)
    /\ UNCHANGED <<entry, pc, method, body, answers, readerPos, failover, instrUpstreams,
                   throttle, candidates, nextUpstream, attempts, written, statsFor, ret>>

DoCancel == Cancel /\ UNCHANGED <<varsMatch, varsCursor, varsFsm, varsCalls>>

DoFinish == Finish /\ UNCHANGED <<varsMatch, varsCursor, varsFsm, varsCalls>>

DoServeHTTP == ServeHTTP /\ UNCHANGED <<varsMatch, varsCursor, varsFsm, varsCalls>>

DoGetInstructions == GetInstructions /\ UNCHANGED <<varsMatch, varsCursor, varsFsm, varsCalls>>

DoGetUpstreams == GetUpstreams /\ UNCHANGED <<varsMatch, varsCursor, varsFsm, varsCalls>>

DoProxyRequestNoFailover == ProxyRequestNoFailover /\ UNCHANGED <<varsMatch, varsCursor, varsFsm, varsCalls>>

DoProxyRequestBuffer == ProxyRequestBuffer /\ UNCHANGED <<varsMatch, varsCursor, varsFsm, varsCalls>>

DoProxyRequestAttempt == ProxyRequestAttempt /\ UNCHANGED <<varsMatch, varsCursor, varsFsm, varsCalls>>

DoProxyRequestAllFailed == ProxyRequestAllFailed /\ UNCHANGED <<varsMatch, varsCursor, varsFsm, varsCalls>>

DoRoundTrip == RoundTrip /\ UNCHANGED <<varsMatch, varsCursor, varsFsm, varsCalls>>

DoRoundTripAttempt == RoundTripAttempt /\ UNCHANGED <<varsMatch, varsCursor, varsFsm, varsCalls>>

NextForward ==
    \/ DoServeHTTP
    \/ DoGetInstructions
    \/ DoGetUpstreams
    \/ DoProxyRequestNoFailover
    \/ DoProxyRequestBuffer
    \/ DoProxyRequestAttempt
    \/ DoProxyRequestAllFailed
    \/ DoRoundTrip
    \/ DoRoundTripAttempt
    \/ DoFinish
    \/ DoCancel

(***************************************************************************)
(* Claims about the forwarders                                             *)
(***************************************************************************)
IsPrefixOf(s, t) == Len(s) <= Len(t) /\ s = SubSeq(t, 1, Len(s))

\* The attempts that reached the transport
TransportAttempts == {i \in DOMAIN attempts : attempts[i].via = "transport"}

\* C6: in a failover sequence (proxyRequest with failover, or RoundTrip) every
\* attempt starts with the body reader at offset 0 over the request's bytes:
\* what the upstream is sent is the body from its first byte, whole when the
\* upstream answers, whatever the attempts before it consumed.
C6_BodyReplay ==
    \A i \in DOMAIN attempts :
        /\ attempts[i].start = 0
        /\ IsPrefixOf(attempts[i].sent, body)
        /\ (i \in TransportAttempts /\ ~attempts[i].error) => attempts[i].sent = body

\* C6 witness: a second attempt was sent the whole body after a failed first
\* attempt had consumed part of it
C6_Witness ==
    /\ Len(attempts) >= 2
    /\ attempts[1].error
    /\ attempts[1].via = "transport"
    /\ Len(attempts[1].sent) > 0
    /\ attempts[2].via = "transport"
    /\ ~attempts[2].error
    /\ attempts[2].sent = body

\* C7: with the default ShouldFailover predicate RoundTrip makes at most 2
\* attempts for a request, and at most 1 when the method is not GET.
C7_DefaultPredicateBounds ==
    entry = "RoundTrip" =>
        /\ Len(attempts) <= DefaultMaxAttempts
        /\ method # "GET" => Len(attempts) <= 1

\* C7 witness: RoundTrip returned after two failed attempts of a GET
C7_Witness ==
    /\ entry = "RoundTrip"
    /\ pc = "done"
    /\ method = "GET"
    /\ Len(attempts) = DefaultMaxAttempts
    /\ attempts[1].error
    /\ attempts[2].error

SameUpstreams(a, b) ==
    /\ Len(a) = Len(b)
    /\ \A u \in Upstreams :
          Cardinality({i \in DOMAIN a : a[i] = u}) = Cardinality({i \in DOMAIN b : b[i] = u})

\* The calls made for the request so far, attempt after attempt
RECURSIVE EventsOf(_)
EventsOf(atts) == IF atts = <<>> THEN <<>> ELSE Head(atts).events \o EventsOf(Tail(atts))

Positions(s, x) == {i \in DOMAIN s : s[i] = x}

\* C12 as stated: over a whole request handled by RoundTrip, failover
\* included, ObserveRequest fires exactly once and before any middleware
\* pre-hook, and ObserveResponse fires once after every attempt, after the
\* attempt was added to the request.
C12_ObserveRequestOnce ==
    (entry = "RoundTrip" /\ attempts # <<>>) =>
        /\ Cardinality(Positions(EventsOf(attempts), "ObserveRequest")) = 1
        /\ \A i \in Positions(EventsOf(attempts), "ProcessRequest") :
              \A j \in Positions(EventsOf(attempts), "ObserveRequest") : j < i
        /\ Cardinality(Positions(EventsOf(attempts), "ObserveResponse")) = Len(attempts)

\* C12 amended: ObserveRequest fires once per attempt, first of all the calls
\* of that attempt and so before its middleware pre-hook; ObserveResponse
\* fires once per attempt, last of all its calls, right after the attempt was
\* added to the request.  A request of k attempts sees k ObserveRequest and k
\* ObserveResponse calls, and none when the balancer returns no endpoint.
C12_ObserversPerAttempt ==
    entry = "RoundTrip" =>
        /\ \A i \in DOMAIN attempts :
              \E ev \in {attempts[i].events} :
                 /\ Positions(ev, "ObserveRequest") = {1}
                 /\ \A j \in Positions(ev, "ProcessRequest") : j > 1
                 /\ Positions(ev, "ObserveResponse") = {Len(ev)}
                 /\ Positions(ev, "AddAttempt") = {Len(ev) - 1}
        /\ Cardinality(Positions(EventsOf(attempts), "ObserveRequest")) = Len(attempts)
        /\ Cardinality(Positions(EventsOf(attempts), "ObserveResponse")) = Len(attempts)

\* C12 witness: RoundTrip returned after a failover, two attempts and two
\* ObserveRequest calls
C12_Witness ==
    /\ entry = "RoundTrip"
    /\ pc = "done"
    /\ Len(attempts) = 2
    /\ Cardinality(Positions(EventsOf(attempts), "ObserveRequest")) = 2

\* C13: once the downstream caller has cancelled the request RoundTrip starts
\* no further attempt, even when the failover predicate accepts the last one.
\* (cancelledAt >= 1: the caller cancelled after an attempt had been made, so
\* an attempt beyond cancelledAt is a re-entry of the failover loop.)
C13_NoAttemptAfterCancel ==
    (entry = "RoundTrip" /\ cancelledAt >= 1) => Len(attempts) = cancelledAt

C9_Scenario ==
    /\ entry = "ServeHTTP"
    /\ pc = "done"
    /\ failover
    /\ candidates = <<"U1", "U2">>
    /\ attempts # <<>>

C10_NoFailoverSingleUpstream ==
    (entry = "ServeHTTP" /\ ~failover) =>
        /\ Len(attempts) <= 1
        /\ (pc = "done" /\ candidates # <<>>) =>
              /\ Len(attempts) = 1
              /\ attempts[1].endpoint = candidates[1]
              /\ IF answers[candidates[1]] = Refused
                 THEN written = <<[status |-> StatusBadGateway, from |-> "proxy"]>>
                 ELSE written = <<[status |-> answers[candidates[1]], from |-> candidates[1]]>>

\* C10 witness: failover disabled, several candidates, the first refused and
\* the client got the proxy's 502
C10_Witness ==
    /\ entry = "ServeHTTP"
    /\ ~failover
    /\ pc = "done"
    /\ Len(candidates) >= 2
    /\ answers[candidates[1]] = Refused
    /\ answers[candidates[2]] = 200
    /\ Len(attempts) = 1
    /\ written = <<[status |-> StatusBadGateway, from |-> "proxy"]>>

\* C25: when a middleware pre-hook has answered or failed the request, the
\* transport is not invoked for that attempt, the attempt is appended to the
\* request, and RoundTrip returns that response or error without starting
\* another attempt.
C25_MiddlewareShortCircuit ==
    entry = "RoundTrip" =>
        \A i \in DOMAIN attempts :
            attempts[i].via = "middleware" =>
                /\ "transport.RoundTrip" \notin Range(attempts[i].events)
                /\ i = Len(attempts)
                /\ pc = "done"
                /\ ret.from = attempts[i].endpoint
                /\ ret.kind = IF attempts[i].error THEN "error" ELSE "response"

\* C29: on every path through ServeHTTP the status line is written to the
\* downstream writer exactly once: never twice, once when the handler has
\* returned, nothing while only failed attempts have been made, and what was
\* written is either the response of the last upstream tried or the error
\* document of the proxy.
C29_StatusWrittenOnce ==
    entry = "ServeHTTP" =>
        /\ Len(written) <= 1
        /\ pc = "done" => Len(written) = 1
        /\ pc # "done" => written = <<>>
        /\ \A i \in DOMAIN written :
              \/ /\ written[i].from = "proxy"
                 /\ \A k \in DOMAIN attempts : attempts[k].error
              \/ /\ attempts # <<>>
                 /\ written[i].from = attempts[Len(attempts)].endpoint
                 /\ written[i].status = attempts[Len(attempts)].status
                 /\ \A k \in 1..(Len(attempts) - 1) : attempts[k].error

\* C29 witness: two upstreams failed, the third answered, and the downstream
\* writer holds the third one's status line and nothing else
C29_Witness ==
    /\ entry = "ServeHTTP"
    /\ pc = "done"
    /\ failover
    /\ Len(attempts) = 3
    /\ attempts[1].error /\ attempts[2].error /\ ~attempts[3].error
    /\ written = <<[status |-> attempts[3].status, from |-> attempts[3].endpoint]>>

\* C18: updateStats is called at most once per request, only after the
\* forwarding has succeeded and with the upstream that served the response;
\* never when the request was rejected or every upstream failed; and whether
\* updateStats fails does not change what the client receives.
C18_UpdateStatsOnce ==
    entry = "ServeHTTP" =>
        /\ Len(statsFor) <= 1
        /\ statsFor # <<>> =>
              /\ pc = "done"
              /\ attempts # <<>>
              /\ ~attempts[Len(attempts)].error
              /\ attempts[Len(attempts)].endpoint = statsFor[1].upstream
              /\ written = <<[status |-> answers[statsFor[1].upstream],
                              from |-> statsFor[1].upstream]>>
        /\ (pc = "done" /\ statsFor = <<>>) =>
              /\ written # <<>>
              /\ written[Len(written)].from = "proxy"
              /\ \A i \in DOMAIN attempts : attempts[i].error

\* C18 witness: the first upstream failed, the second served the response,
\* updateStats was called once, for the second, and failed; the client has
\* the second upstream's response all the same.
C18_Witness ==
    /\ entry = "ServeHTTP"
    /\ pc = "done"
    /\ Len(attempts) = 2
    /\ attempts[1].error
    /\ statsFor = <<[upstream |-> attempts[2].endpoint, failed |-> TRUE]>>
    /\ written = <<[status |-> 200, from |-> attempts[2].endpoint]>>

(***************************************************************************)
(* Header and URL rewriting: rewriteRequest (proxy.go) and                 *)
(* HttpLocation.rewriteRequest (httploc)                                   *)
(***************************************************************************)
\* A header map is a function from the keys present to their values, in
\* order; a value is a sequence of tokens, the empty string being <<>>.
hopHeaders ==
    {"Connection", "Keep-Alive", "Proxy-Authenticate", "Proxy-Authorization", "Te",
     "Trailers", "Transfer-Encoding", "Upgrade"}

XForwardedFor == "X-Forwarded-For"

XForwardedProto == "X-Forwarded-Proto"

XForwardedHost == "X-Forwarded-Host"

XForwardedServer == "X-Forwarded-Server"

\* http.Header{} with no key
EmptyHeader == [k \in {} |-> <<>>]

\* textproto.CanonicalMIMEHeaderKey on the keys used here
CanonicalKey(k) ==
    CASE k = "connection" -> "Connection"
      [] k = "TE" -> "Te"
      [] k = "upgrade" -> "Upgrade"
      [] OTHER -> k

\* A header map holding each key of keys with the single value v
HeaderOf(keys, v) == [k \in keys |-> <<v>>]

\* http.Header.Get: the first value of the key, "" when there is none
HeaderGet(h, k) ==
    IF CanonicalKey(k) \in DOMAIN h /\ h[CanonicalKey(k)] # <<>>
    THEN h[CanonicalKey(k)][1] ELSE <<>>

\* http.Header.Set
HeaderSet(h, k, v) ==
    [x \in DOMAIN h \cup {CanonicalKey(k)} |-> IF x = CanonicalKey(k) THEN <<v>> ELSE h[x]]

\* http.Header.Add for each of the values vv, in order
HeaderAddAll(h, k, vv) ==
    IF vv = <<>> THEN h
    ELSE [x \in DOMAIN h \cup {CanonicalKey(k)} |->
            IF x = CanonicalKey(k)
            THEN (IF x \in DOMAIN h THEN h[x] ELSE <<>>) \o vv
            ELSE h[x]]

\* copyHeaders / netutils.CopyHeaders: every value of src is added to dst
RECURSIVE copyHeaderKeys(_, _, _)
copyHeaderKeys(dst, src, keys) ==
    IF keys = {} THEN dst
    ELSE LET k == CHOOSE x \in keys : TRUE
         IN  copyHeaderKeys(HeaderAddAll(dst, k, src[k]), src, keys \ {k})

copyHeaders(dst, src) == copyHeaderKeys(dst, src, DOMAIN src)

\* hasHeaders: one of the names has a non-empty value
hasHeaders(names, h) == \E n \in names : HeaderGet(h, n) # <<>>

\* removeHeaders / netutils.RemoveHeaders: Del of every name
removeHeaders(names, h) == [x \in DOMAIN h \ {CanonicalKey(n) : n \in names} |-> h[x]]

\* The values of a header joined into one, strings.Join(prior, ", ")
RECURSIVE JoinValues(_)
JoinValues(vv) == IF vv = <<>> THEN <<>> ELSE Head(vv) \o JoinValues(Tail(vv))

\* The header maps of inbound requests: net/http stores their keys canonical
InboundHeaders ==
    {HeaderOf(keys, <<"v">>) :
        keys \in {{}, {"Accept"}, hopHeaders, {"Accept", XForwardedFor}}
                    \cup {{h, "Accept"} : h \in hopHeaders}}
        \cup {HeaderOf({"Connection"}, <<>>)}

\* upstream.Headers: nil (isNil), or the map the control server sent, its keys
\* as they were spelled there
UpstreamHeaders ==
    {[isNil |-> TRUE, headers |-> EmptyHeader]}
        \cup {[isNil |-> FALSE, headers |-> HeaderOf(keys, <<"u">>)] :
                keys \in {{}, {"X-Custom"}, {"connection"}, {"TE"}}
                            \cup {{h} : h \in hopHeaders}}

\* Mutant of rewriteRequest: the hop-by-hop headers are removed before the
\* upstream's headers are added
rewriteRequestRemoveFirst(upstream, reqHeader) ==
    LET copied == ~upstream.isNil \/ hasHeaders(hopHeaders, reqHeader)
        own == IF copied THEN copyHeaders(EmptyHeader, reqHeader) ELSE reqHeader
        cleaned == removeHeaders(hopHeaders, own)
        out == IF ~upstream.isNil THEN copyHeaders(cleaned, upstream.headers) ELSE cleaned
    IN  [outHeader |-> out, reqHeader |-> IF copied THEN reqHeader ELSE cleaned, copied |-> copied]

\* rewriteRequest of proxy.go on the headers: outReq.Header, and req.Header as
\* the call leaves it (outReq.Header is the same map unless it was copied)
rewriteRequest(upstream, reqHeader) ==
    LET copied == ~upstream.isNil \/ hasHeaders(hopHeaders, reqHeader)
        own == IF copied THEN copyHeaders(EmptyHeader, reqHeader) ELSE reqHeader
        merged == IF ~upstream.isNil THEN copyHeaders(own, upstream.headers) ELSE own
        out == removeHeaders(hopHeaders, merged)
    IN  [outHeader |-> out, reqHeader |-> IF copied THEN reqHeader ELSE out, copied |-> copied]

\* HttpLocation.rewriteRequest on the headers.  splitOk: net.SplitHostPort
\* accepted req.RemoteAddr; trust: options.TrustForwardHeader; tls: req.TLS is
\* set; host: req.Host
HttpLocationRewriteRequest(reqHeader, splitOk, trust, tls, host) ==
    LET own == copyHeaders(EmptyHeader, reqHeader)
        clientIP == IF trust /\ XForwardedFor \in DOMAIN own
                    THEN JoinValues(own[XForwardedFor]) \o <<", ", "1.2.3.4">>
                    ELSE <<"1.2.3.4">>
        withFor == IF splitOk THEN HeaderSet(own, XForwardedFor, clientIP) ELSE own
        withProto == HeaderSet(withFor, XForwardedProto, IF tls THEN <<"https">> ELSE <<"http">>)
        withHost == IF host # "" THEN HeaderSet(withProto, XForwardedHost, <<host>>) ELSE withProto
        withServer == HeaderSet(withHost, XForwardedServer, <<"hostname">>)
    IN  [outHeader |-> removeHeaders(hopHeaders, withServer), reqHeader |-> reqHeader,
         copied |-> TRUE]

\* The URL of an inbound request as the server parsed it from the request
\* line, and the URLs of the upstreams (endpoints)
InboundUrl == [Scheme |-> "", Host |-> "", Path |-> "/in", RawQuery |-> "q=1"]

UpstreamUrls ==
    {[Scheme |-> "http", Host |-> "u1:80", Path |-> "/up", RawQuery |-> ""],
     [Scheme |-> "", Host |-> "", Path |-> "/in", RawQuery |-> ""]}

\* rewriteRequest of proxy.go on the URL: *outReq = *req copies the pointer
\* req.URL, so the assignments to outReq.URL's fields are assignments to the
\* inbound request's URL; outReq.URL, and req.URL as the call leaves it
rewriteRequestUrl(upstreamUrl, reqUrl) ==
    LET shared == [Scheme |-> upstreamUrl.Scheme, Host |-> upstreamUrl.Host,
                   Path |-> upstreamUrl.Path, RawQuery |-> reqUrl.RawQuery]
    IN  [outUrl |-> shared, reqUrl |-> shared]

\* HttpLocation.rewriteRequest on the URL: the same shared pointer; the path
\* is left as it is
HttpLocationRewriteRequestUrl(endpointUrl, reqUrl) ==
    LET shared == [Scheme |-> endpointUrl.Scheme, Host |-> endpointUrl.Host,
                   Path |-> reqUrl.Path, RawQuery |-> reqUrl.RawQuery]
    IN  [outUrl |-> shared, reqUrl |-> shared]

\* One call of proxy.go's rewriteRequest
DoRewriteRequest ==
    /\ \E upstream \in UpstreamHeaders, reqHeader \in InboundHeaders,
          upstreamUrl \in UpstreamUrls :
       \E r \in {rewriteRequest(upstream, reqHeader)} :
       \E u \in {rewriteRequestUrl(upstreamUrl, InboundUrl)} :
          rewriteOut' = [op |-> "proxy", inHeader |-> reqHeader, upstream |-> upstream,
                         outHeader |-> r.outHeader, reqHeader |-> r.reqHeader,
                         copied |-> r.copied,
                         inUrl |-> InboundUrl, outUrl |-> u.outUrl, reqUrl |-> u.reqUrl]
    /\ UNCHANGED <<settingsOut, nextOut, rr>>
    /\ UNCHANGED <<varsMatch, varsCursor, varsFsm, varsForward>>

\* One call of HttpLocation.rewriteRequest
DoHttpLocationRewriteRequest ==
    /\ \E reqHeader \in InboundHeaders, splitOk \in BOOLEAN, trust \in BOOLEAN,
          tls \in BOOLEAN, host \in {"", "example.com"}, endpointUrl \in UpstreamUrls :
       \E r \in {HttpLocationRewriteRequest(reqHeader, splitOk, trust, tls, host)} :
       \E u \in {HttpLocationRewriteRequestUrl(endpointUrl, InboundUrl)} :
          rewriteOut' = [op |-> "location", inHeader |-> reqHeader,
                         upstream |-> [isNil |-> TRUE, headers |-> EmptyHeader],
                         outHeader |-> r.outHeader, reqHeader |-> r.reqHeader,
                         copied |-> r.copied,
                         inUrl |-> InboundUrl, outUrl |-> u.outUrl, reqUrl |-> u.reqUrl]
    /\ UNCHANGED <<settingsOut, nextOut, rr>>
    /\ UNCHANGED <<varsMatch, varsCursor, varsFsm, varsForward>>

NextRewrite == DoRewriteRequest \/ DoHttpLocationRewriteRequest

\* C11: the outbound request rewriteRequest produces (either one) carries none
\* of the hop-by-hop headers, whatever the inbound request and the upstream's
\* header overrides hold.
C11_HeaderHygiene ==
    rewriteOut.op # "none" => DOMAIN rewriteOut.outHeader \cap hopHeaders = {}

\* C11 witness: the inbound request and the upstream's overrides both carried a
\* hop-by-hop header, and the outbound request has headers but none of them
C11_Witness ==
    /\ rewriteOut.op = "proxy"
    /\ DOMAIN rewriteOut.inHeader \cap hopHeaders # {}
    /\ ~rewriteOut.upstream.isNil
    /\ {CanonicalKey(k) : k \in DOMAIN rewriteOut.upstream.headers} \cap hopHeaders # {}
    /\ "Accept" \in DOMAIN rewriteOut.outHeader
    /\ DOMAIN rewriteOut.outHeader \cap hopHeaders = {}

\* C28: rewriteRequest (either one) does not modify the inbound request: its
\* URL and its header map hold after the call what they held before, and the
\* outbound header map is a map of its own.
C28_InboundUntouched ==
    rewriteOut.op # "none" =>
        /\ rewriteOut.reqUrl = rewriteOut.inUrl
        /\ rewriteOut.reqHeader = rewriteOut.inHeader
        /\ rewriteOut.copied

(***************************************************************************)
(* validateProxySettings (src/proxy.go:314-334).  Durations are in seconds. *)
(***************************************************************************)
MaxControlServers == 2

DefaultHttpReadTimeout == 10
DefaultHttpDialTimeout == 10

\* The timeouts a caller supplies: none (0), shorter and longer than the default
Timeouts == {0, 3, DefaultHttpReadTimeout, 30}

\* The settings handed to NewReverseProxy: a nil pointer, or a structure
ProxySettings ==
    [isNil : BOOLEAN, ControlServers : 0..MaxControlServers,
     ThrottlerBackendNil : BOOLEAN, LoadBalancerNil : BOOLEAN,
     HttpReadTimeout : Timeouts, HttpDialTimeout : Timeouts]

\* The four rejections in order, then the two default assignments: both tests
\* read HttpReadTimeout, the second after the first has assigned it
validateProxySettings(s) ==
    IF s.isNil THEN [err |-> "Provide proxy settings", s |-> s]
    ELSE IF s.ControlServers = 0 THEN [err |-> "Supply at least one control server", s |-> s]
    ELSE IF s.ThrottlerBackendNil THEN [err |-> "Backend can not be nil", s |-> s]
    ELSE IF s.LoadBalancerNil THEN [err |-> "Load balancer can not be nil", s |-> s]
    ELSE LET s1 == IF s.HttpReadTimeout = 0
                   THEN [s EXCEPT !.HttpReadTimeout = DefaultHttpReadTimeout] ELSE s
             s2 == IF s1.HttpReadTimeout = 0
                   THEN [s1 EXCEPT !.HttpDialTimeout = DefaultHttpDialTimeout] ELSE s1
         IN  [err |-> "", s |-> s2]

\* One call of validateProxySettings
DoValidateProxySettings ==
    /\ \E s \in ProxySettings :
       \E r \in {validateProxySettings(s)} :
          settingsOut' = [op |-> "validate", in |-> s, err |-> r.err, out |-> r.s]
    /\ UNCHANGED <<rewriteOut, nextOut, rr>>
    /\ UNCHANGED <<varsMatch, varsCursor, varsFsm, varsForward>>

NextSettings == DoValidateProxySettings

\* C17: after validateProxySettings has succeeded on settings whose
\* HttpDialTimeout is zero, HttpDialTimeout is the 10-second default whatever
\* HttpReadTimeout was; a zero HttpReadTimeout likewise becomes the default.
C17_TimeoutDefaults ==
    (settingsOut.op = "validate" /\ settingsOut.err = "") =>
        /\ settingsOut.in.HttpDialTimeout = 0
              => settingsOut.out.HttpDialTimeout = DefaultHttpDialTimeout
        /\ settingsOut.in.HttpReadTimeout = 0
              => settingsOut.out.HttpReadTimeout = DefaultHttpReadTimeout

(***************************************************************************)
(* cursor.next (src/unnamed/part_002:432-444).  The endpoints of the list  *)
(* are numbered 1..N in list order; the cursor's index counts from 0.      *)
(***************************************************************************)
\* One call of next on a cursor of the list: newCursor starts the index at 0
\* and next keeps it below the length of the list
DoNext ==
    /\ \E active \in ActiveLists :
       \E index \in 0..Max2(Len(active) - 1, 0) :
       \E r \in {next(index, active)} :
          nextOut' = [op |-> "next", active |-> active, before |-> index,
                      endpoint |-> r.endpoint, err |-> r.err, index |-> r.index,
                      examined |-> r.examined]
    /\ UNCHANGED <<rewriteOut, settingsOut, rr>>
    /\ UNCHANGED <<varsMatch, varsCursor, varsFsm, varsForward>>

NextNext == DoNext

\* C20: next returns the first active endpoint in cyclic order starting at the
\* cursor's index and leaves the index one past it (mod N); it returns the
\* "no endpoints" error exactly when no endpoint is active, having examined
\* each endpoint exactly once.
C20_NextCyclic ==
    nextOut.op = "next" =>
        LET n == Len(nextOut.active)
            at(d) == ((nextOut.before + d) % n) + 1
        IN  /\ nextOut.err <=> \A k \in 1..n : ~nextOut.active[k]
            /\ ~nextOut.err =>
                  \E d \in 0..(n - 1) :
                     /\ nextOut.endpoint = at(d)
                     /\ nextOut.active[at(d)]
                     /\ \A e \in 0..(d - 1) : ~nextOut.active[at(e)]
                     /\ nextOut.index = (nextOut.before + d + 1) % n
                     /\ nextOut.examined = [e \in 1..(d + 1) |-> at(e - 1)]
            /\ nextOut.err =>
                  /\ nextOut.endpoint = NoEndpoint
                  /\ Len(nextOut.examined) = n
                  /\ Range(nextOut.examined) = 1..n

\* C20 witness: of three endpoints only the first is active, the cursor stood
\* at the second; next skipped the second and third, wrapped round, returned
\* the first and left the index at the second.
C20_Witness ==
    /\ nextOut.op = "next"
    /\ nextOut.active = <<TRUE, FALSE, FALSE>>
    /\ nextOut.before = 1
    /\ nextOut.examined = <<2, 3, 1>>
    /\ nextOut.endpoint = 1
    /\ nextOut.index = 1
    /\ ~nextOut.err

(***************************************************************************)
(* Failover of HttpLocation.RoundTrip over a round-robin balancer: every   *)
(* iteration of the loop asks NextEndpoint (src/unnamed/part_002:551),     *)
(* which takes the cursor of the endpoint list and calls cursor.next on    *)
(* it; requests for the same endpoint list share that cursor.              *)
(***************************************************************************)
\* Calls of NextEndpoint by other requests while the request is served
MaxOthers == 2

RrIdle == [phase |-> "idle", active |-> <<>>, index |-> 0, picks |-> <<>>, others |-> 0]

\* RoundTrip is entered for a GET request; the balancer holds some endpoints,
\* at least one, and their cursor stands somewhere
RrStart ==
    /\ rr.phase = "idle"
    /\ \E active \in ActiveLists \ {<<>>}, index \in 0..MaxEndpoints :
          /\ index < Len(active)
          /\ rr' = [phase |-> "serving", active |-> active, index |-> index,
                    picks |-> <<>>, others |-> 0]

\* One iteration of RoundTrip's loop: NextEndpoint picks an endpoint and
\* advances the cursor; the attempt on it fails, and the default predicate
\* accepts a retry while fewer than DefaultMaxAttempts attempts were made
RrAttempt ==
    /\ rr.phase = "serving"
    /\ \E r \in {next(rr.index, rr.active)} :
          IF r.err
          THEN rr' = [rr EXCEPT !.phase = "done", !.index = r.index]
          ELSE rr' = [rr EXCEPT !.picks = Append(@, r.endpoint), !.index = r.index,
                                !.phase = IF Len(rr.picks) + 1 < DefaultMaxAttempts
                                          THEN "serving" ELSE "done"]

\* Another request for the same endpoints calls NextEndpoint in between
RrOther ==
    /\ rr.phase = "serving"
    /\ rr.others < MaxOthers
    /\ \E r \in {next(rr.index, rr.active)} :
          rr' = [rr EXCEPT !.index = r.index, !.others = @ + 1]

\* RoundTrip has returned
RrFinish ==
    /\ rr.phase = "done"
    /\ rr' = RrIdle

DoRrStart ==
    RrStart /\ UNCHANGED <<rewriteOut, settingsOut, nextOut>>
            /\ UNCHANGED <<varsMatch, varsCursor, varsFsm, varsForward>>

DoRrAttempt ==
    RrAttempt /\ UNCHANGED <<rewriteOut, settingsOut, nextOut>>
              /\ UNCHANGED <<varsMatch, varsCursor, varsFsm, varsForward>>

DoRrOther ==
    RrOther /\ UNCHANGED <<rewriteOut, settingsOut, nextOut>>
            /\ UNCHANGED <<varsMatch, varsCursor, varsFsm, varsForward>>

DoRrFinish ==
    RrFinish /\ UNCHANGED <<rewriteOut, settingsOut, nextOut>>
             /\ UNCHANGED <<varsMatch, varsCursor, varsFsm, varsForward>>

NextRr == DoRrStart \/ DoRrAttempt \/ DoRrOther \/ DoRrFinish

\* C26: when the request has failed over and an active endpoint other than
\* the one that failed exists, the retry went to a different endpoint, also
\* when other requests advanced the cursor between the two attempts.
C26_RetryOnDifferentEndpoint ==
    (/\ Len(rr.picks) = 2
     /\ \E k \in DOMAIN rr.active : rr.active[k] /\ k # rr.picks[1])
        => rr.picks[2] # rr.picks[1]

InitCalls ==
    /\ rewriteOut = [op |-> "none"]
    /\ settingsOut = [op |-> "none"]
    /\ nextOut = [op |-> "none"]
    /\ rr = RrIdle

Init == InitMatch /\ InitCursor /\ InitFsm /\ InitForward /\ InitCalls

SpecMatch == Init /\ [][NextMatch]_vars

SpecCursor == Init /\ [][NextCursor]_vars

SpecCursorUse == Init /\ [][NextCursorUse]_vars

\* AdjustWeights is called on every endpoint selection, again and again, and the
\* clock advances
SpecFsm ==
    /\ Init
    /\ [][NextFsm]_vars
    /\ WF_vars(DoAdjustWeights)
    /\ WF_vars(DoTick)

SpecForward == Init /\ [][NextForward]_vars

SpecRewrite == Init /\ [][NextRewrite]_vars

SpecSettings == Init /\ [][NextSettings]_vars

SpecNext == Init /\ [][NextNext]_vars

SpecRr == Init /\ [][NextRr]_vars

=============================================================================
